---- MODULE Spec2Model ----
(***************************************************************************)
(* A model of the ADK_AdmissionsAI profile store and editor                *)
(* (src/app/profile_manager.py) and of the agent pipeline module           *)
(* (src/app/agent.py).                                                     *)
(*                                                                         *)
(* The profile document student_profile.json is the variable file.  A      *)
(* caller holds profile dictionaries in a two-slot heap and calls          *)
(* load_profile, save_profile and update_profile_interactively; every call *)
(* is one action.  Python values are records [t, n, s]: a type tag, an     *)
(* integer payload (floats are kept in hundredths) and a string payload.   *)
(***************************************************************************)
EXTENDS Integers, Sequences, FiniteSets, TLC

VARIABLES
    file,        \* the profile document: [exists, readable, body]
    heap,        \* slot -> profile dictionary (the caller's objects)
    held,        \* slot of the profile the caller holds, 0 when none
    op,          \* the call that has just returned
    argRef,      \* slot of that call's argument, 0 when it takes none
    argSnap,     \* the argument's content when the call started
    ret,         \* slot of the returned dictionary, 0 when none
    exc,         \* exception propagated to the caller, "none" when it returned
    docBefore,   \* the profile document when the call started
    inputs,      \* what the user typed at the prompts of the call
    prompted,    \* the keys input() was called for, in order
    saveRaised,  \* exception raised inside save_profile's try ("notcalled", "none", ...)
    prev,        \* [op, arg, saveRaised, saved] of the call before this one
    nCalls,      \* calls made so far
    lastSaved,   \* [ok, p]: the profile of the caller's last completed save_profile
    agentPc,     \* where the agent.py program stands
    stagesRun,   \* names of the pipeline stages executed, in order
    pstate,      \* the state the stages share: key -> value, "unset" when not written
    unmet,       \* <<stage, key>>: keys a stage's instruction named that nothing had written
    runExc,      \* the exception that ended the run of the stages, or "none"
    built        \* the last structured record constructed: [schema, omitted, exc, value]

vars == <<file, heap, held, op, argRef, argSnap, ret, exc, docBefore, inputs,
          prompted, saveRaised, prev, nCalls, lastSaved, agentPc, stagesRun,
          pstate, unmet, runExc, built>>

\* Calls per behaviour.
MaxCalls == 3

(***************************************************************************)
(* Python values                                                           *)
(***************************************************************************)
PyStr(s) == [t |-> "str", n |-> 0, s |-> s]
PyInt(n) == [t |-> "int", n |-> n, s |-> ""]
\* a float, in hundredths: 3.95 is PyFloat(395)
PyFloat(h) == [t |-> "float", n |-> h, s |-> ""]
PyList(s) == [t |-> "list", n |-> 0, s |-> s]
PyTuple(s) == [t |-> "tuple", n |-> 0, s |-> s]
PyDict(s) == [t |-> "dict", n |-> 0, s |-> s]
PySet(s) == [t |-> "set", n |-> 0, s |-> s]
PyNone == [t |-> "none", n |-> 0, s |-> ""]
\* the key is not in the dictionary
Absent == [t |-> "absent", n |-> 0, s |-> ""]

Keys == {"full_name", "grade_level", "primary_sport", "events", "personal_records",
         "gender", "unweighted_gpa", "gpa_scale", "sat_score", "act_score",
         "high_school", "nickname"}

ScalarKeys == {"full_name", "grade_level", "primary_sport", "gender", "unweighted_gpa",
               "gpa_scale", "sat_score", "act_score", "high_school"}

EmptyDict == [k \in Keys |-> Absent]

get_default_profile ==
    [full_name        |-> PyStr("Alice Morgan"),
     grade_level      |-> PyStr("11th"),
     primary_sport    |-> PyStr("Track and Field"),
     events           |-> PyList("55m,100m,200m,Long Jump"),
     personal_records |-> PyDict("55M:7.6,100m:12.45,200m:25.80,Long_Jump:5.20m"),
     gender           |-> PyStr("Female"),
     unweighted_gpa   |-> PyFloat(395),
     gpa_scale        |-> PyFloat(400),
     sat_score        |-> PyInt(1280),
     act_score        |-> PyStr("N/A"),
     high_school      |-> PyStr("My High School"),
     nickname         |-> Absent]

(***************************************************************************)
(* json.dump and json.load                                                 *)
(***************************************************************************)
JAbsent == [t |-> "absent", n |-> 0, s |-> ""]

\* json.dump raises TypeError for a value that has no JSON form.
Serialisable(v) == v.t # "set"

\* The JSON text json.dump writes for a Python value.
PyToJson(v) ==
    CASE v.t = "str"    -> [t |-> "string", n |-> 0, s |-> v.s]
      [] v.t = "int"    -> [t |-> "number", n |-> v.n, s |-> "int"]
      [] v.t = "float"  -> [t |-> "number", n |-> v.n, s |-> "real"]
      [] v.t = "list"   -> [t |-> "array", n |-> 0, s |-> v.s]
      [] v.t = "tuple"  -> [t |-> "array", n |-> 0, s |-> v.s]
      [] v.t = "dict"   -> [t |-> "object", n |-> 0, s |-> v.s]
      [] v.t = "none"   -> [t |-> "null", n |-> 0, s |-> ""]
      [] OTHER          -> JAbsent

JsonToPyAllFloat(j) ==
    CASE j.t = "string" -> PyStr(j.s)
      [] j.t = "number" -> PyFloat(j.n)
      [] j.t = "array"  -> PyList(j.s)
      [] j.t = "object" -> PyDict(j.s)
      [] j.t = "null"   -> PyNone
      [] OTHER          -> Absent

\* The Python value json.load builds from a JSON text.
JsonToPy(j) ==
    CASE j.t = "string" -> PyStr(j.s)
      [] j.t = "number" -> IF j.s = "int" THEN PyInt(j.n) ELSE PyFloat(j.n)
      [] j.t = "array"  -> PyList(j.s)
      [] j.t = "object" -> PyDict(j.s)
      [] j.t = "null"   -> PyNone
      [] OTHER          -> Absent

NoMembers == [k \in Keys |-> JAbsent]

\* A document body: a JSON object with its members, or one of the other contents.
\* kind: "object", "nonobject" (valid JSON, not an object), "invalid" (not JSON:
\* garbage, empty or cut short), "undecodable" (not UTF-8), "deep" (nested beyond
\* the decoder's recursion limit).
ObjectBody(members) == [kind |-> "object", obj |-> members]
OtherBody(kind) == [kind |-> kind, obj |-> NoMembers]

DumpProfile(p) == ObjectBody([k \in Keys |-> PyToJson(p[k])])
ParseObject(body) == [k \in Keys |-> JsonToPy(body.obj[k])]

(***************************************************************************)
(* Exceptions and except clauses                                           *)
(***************************************************************************)
\* The base class of each exception class (IOError is an alias of OSError).
BaseOf(e) ==
    CASE e = "JSONDecodeError"    -> "ValueError"
      [] e = "UnicodeDecodeError" -> "ValueError"
      [] e = "ValueError"         -> "Exception"
      [] e = "TypeError"          -> "Exception"
      [] e = "RecursionError"     -> "Exception"
      [] e = "PermissionError"    -> "IOError"
      [] e = "IOError"            -> "Exception"
      [] OTHER                    -> "BaseException"

RECURSIVE IsInstance(_, _)
IsInstance(e, cls) ==
    IF e = cls THEN TRUE
    ELSE IF e = "BaseException" THEN FALSE
    ELSE IsInstance(BaseOf(e), cls)

\* Index of the first except clause that catches e, 0 when none does.
RECURSIVE FirstHandlerFrom(_, _, _)
FirstHandlerFrom(handlers, e, i) ==
    IF i > Len(handlers) THEN 0
    ELSE IF IsInstance(e, handlers[i]) THEN i
    ELSE FirstHandlerFrom(handlers, e, i + 1)

FirstHandler(handlers, e) == FirstHandlerFrom(handlers, e, 1)

(***************************************************************************)
(* save_profile                                                            *)
(***************************************************************************)
\* What the storage does to one save: nothing, open(PROFILE_FILE, 'w') fails,
\* or the data cannot be written out after the file was opened.
StorageFaults == {"none", "open", "write"}

SaveHandlersNoCatchAll == <<"IOError">>
\* the except clauses of save_profile, in order
SaveHandlers == <<"IOError", "Exception">>

\* The exception raised inside save_profile's try block, "none" when the dump
\* completes.
SaveRaises(p, fault) ==
    IF fault = "open" THEN "PermissionError"
    ELSE IF fault = "write" THEN "IOError"
    ELSE IF \E k \in Keys : ~Serialisable(p[k]) THEN "TypeError"
    ELSE "none"

\* The document after save_profile(p): open(..., 'w') truncates an existing
\* document and creates an absent one; json.dump then writes the text.
SaveWrites(f, p, fault) ==
    IF fault = "open" THEN f
    ELSE [exists   |-> TRUE,
          readable |-> IF f.exists THEN f.readable ELSE TRUE,
          body     |-> IF SaveRaises(p, fault) = "none" THEN DumpProfile(p)
                       ELSE OtherBody("invalid")]

\* save_profile(p) on document f: the document afterwards, the exception raised
\* inside the try and the exception that reaches the caller.
save_profile(f, p, fault) ==
    LET raised == SaveRaises(p, fault)
    IN [file   |-> SaveWrites(f, p, fault),
        raised |-> raised,
        exc    |-> IF raised = "none" \/ FirstHandler(SaveHandlers, raised) # 0
                   THEN "none" ELSE raised]

(***************************************************************************)
(* load_profile                                                            *)
(***************************************************************************)
LoadHandlersOnlyDecode == <<"JSONDecodeError", "IOError">>
\* the except clauses of load_profile, in order
LoadHandlers == <<"JSONDecodeError", "ValueError", "IOError", "Exception">>

\* The exception raised inside load_profile's try block for an existing document.
LoadRaises(f) ==
    IF ~f.readable THEN "PermissionError"
    ELSE CASE f.body.kind = "invalid"     -> "JSONDecodeError"
           [] f.body.kind = "undecodable" -> "UnicodeDecodeError"
           [] f.body.kind = "deep"        -> "RecursionError"
           [] f.body.kind = "nonobject"   -> "ValueError"
           [] OTHER                       -> "none"

\* The path load_profile takes: "absent" (lines 48-52), "loaded" (54-61), the
\* except clause that caught ("except1" .. "except4"), or "raise".
LoadBranch(f) ==
    IF ~f.exists THEN "absent"
    ELSE LET raised == LoadRaises(f)
             h == FirstHandler(LoadHandlers, raised)
         IN IF raised = "none" THEN "loaded"
            ELSE IF h = 0 THEN "raise"
            ELSE <<"except1", "except2", "except3", "except4">>[h]

BranchSavesOnlyDecode(branch) == branch = "except1"
\* The paths of load_profile that call save_profile(default_profile).
BranchSaves(branch) == branch \in {"absent", "except1", "except2"}

\* load_profile() on document f: the document afterwards, the returned
\* dictionary, the exception that reaches the caller, and what the save it made
\* raised ("notcalled" when it made none).
load_profile(f, fault) ==
    LET branch == LoadBranch(f)
        sv == save_profile(f, get_default_profile, fault)
    IN IF branch = "loaded"
       THEN [file |-> f, result |-> ParseObject(f.body), exc |-> "none",
             saveRaised |-> "notcalled"]
       ELSE IF branch = "raise"
       THEN [file |-> f, result |-> EmptyDict, exc |-> LoadRaises(f),
             saveRaised |-> "notcalled"]
       ELSE IF BranchSaves(branch)
       THEN [file |-> sv.file, result |-> get_default_profile, exc |-> sv.exc,
             saveRaised |-> sv.raised]
       ELSE [file |-> f, result |-> get_default_profile, exc |-> "none",
             saveRaised |-> "notcalled"]

(***************************************************************************)
(* update_profile_interactively                                            *)
(***************************************************************************)
\* The characters of each line the user may type.
Chars(s) ==
    CASE s = ""        -> <<>>
      [] s = "4.5"     -> <<"4", ".", "5">>
      [] s = "1400"    -> <<"1", "4", "0", "0">>
      [] s = "abc"     -> <<"a", "b", "c">>
      [] s = "Bo"      -> <<"B", "o">>

Digits == <<"0", "1", "2", "3", "4", "5", "6", "7", "8", "9">>
IsDigit(c) == \E i \in DOMAIN Digits : Digits[i] = c
DigitValue(c) == (CHOOSE i \in DOMAIN Digits : Digits[i] = c) - 1

\* The number a string of digits denotes (0 for the empty string).
RECURSIVE Decimal(_)
Decimal(cs) ==
    IF cs = <<>> THEN 0
    ELSE 10 * Decimal(SubSeq(cs, 1, Len(cs) - 1)) + DigitValue(cs[Len(cs)])

\* int(user_input): ValueError unless the text is a run of digits.
ParseInt(s) ==
    LET cs == Chars(s)
    IN IF cs # <<>> /\ \A i \in DOMAIN cs : IsDigit(cs[i])
       THEN [exc |-> "none", val |-> PyInt(Decimal(cs))]
       ELSE [exc |-> "ValueError", val |-> PyNone]

\* float(user_input) on digits, points and letters: digits with at most one
\* point are a number (kept in hundredths, two decimals), anything else is a
\* ValueError.
ParseFloat(s) ==
    LET cs == Chars(s)
        dots == {i \in DOMAIN cs : cs[i] = "."}
        dot == IF dots = {} THEN Len(cs) + 1 ELSE CHOOSE i \in dots : TRUE
        whole == SubSeq(cs, 1, dot - 1)
        frac == SubSeq(cs, dot + 1, Len(cs))
        frac2 == SubSeq(frac \o <<"0", "0">>, 1, 2)
    IN IF /\ Cardinality(dots) <= 1
          /\ \A i \in DOMAIN cs : IsDigit(cs[i]) \/ cs[i] = "."
          /\ \E i \in DOMAIN cs : IsDigit(cs[i])
       THEN [exc |-> "none", val |-> PyFloat(100 * Decimal(whole) + Decimal(frac2))]
       ELSE [exc |-> "ValueError", val |-> PyNone]

\* The conversion of lines 112-117.
Convert(field_type, user_input) ==
    CASE field_type = "float" -> ParseFloat(user_input)
      [] field_type = "int"   -> ParseInt(user_input)
      [] OTHER                -> [exc |-> "none", val |-> PyStr(user_input)]

fields_to_update_act ==
    << [key |-> "full_name",      type |-> "str"],
       [key |-> "grade_level",    type |-> "str"],
       [key |-> "primary_sport",  type |-> "str"],
       [key |-> "gender",         type |-> "str"],
       [key |-> "unweighted_gpa", type |-> "float"],
       [key |-> "act_score",      type |-> "int"],
       [key |-> "high_school",    type |-> "str"] >>

fields_to_update ==
    << [key |-> "full_name",      type |-> "str"],
       [key |-> "grade_level",    type |-> "str"],
       [key |-> "primary_sport",  type |-> "str"],
       [key |-> "gender",         type |-> "str"],
       [key |-> "unweighted_gpa", type |-> "float"],
       [key |-> "sat_score",      type |-> "int"],
       [key |-> "high_school",    type |-> "str"] >>

AlwaysProvided(user_input) == TRUE
\* `if user_input:` - an empty line keeps the current value
IsProvided(user_input) == user_input # ""

UpdateHandlersNone == <<>>
\* the except clause around the conversion
UpdateHandlers == <<"ValueError">>

\* The loop over fields_to_update from field i on.  st is [prof, prompted, exc]:
\* the dictionary being edited, the keys prompted for so far, and the exception
\* that ended the loop ("none" while it runs).
RECURSIVE UpdateLoop(_, _, _)
UpdateLoop(st, i, ins) ==
    IF i > Len(fields_to_update) \/ st.exc # "none" THEN st
    ELSE LET key == fields_to_update[i].key
             asked == [st EXCEPT !.prompted = Append(st.prompted, key)]
             conv == Convert(fields_to_update[i].type, ins[i])
         IN IF ~IsProvided(ins[i]) THEN UpdateLoop(asked, i + 1, ins)
            ELSE IF conv.exc = "none"
            THEN UpdateLoop([asked EXCEPT !.prof[key] = conv.val], i + 1, ins)
            ELSE IF FirstHandler(UpdateHandlers, conv.exc) # 0
            THEN UpdateLoop(asked, i + 1, ins)
            ELSE [asked EXCEPT !.exc = conv.exc]

Slots == {1, 2}
Other(slot) == IF slot = 1 THEN 2 ELSE 1

SameObject(h, cur) == cur
\* `current_profile.copy()`: the slot of the new dictionary
CopyOf(h, cur) == Other(cur)

\* update_profile_interactively(h[cur]) with the user typing ins: the heap
\* afterwards, the slot of the returned dictionary (0 when it raised), the
\* exception that reaches the caller and the keys prompted for.
update_profile_interactively(h, cur, ins) ==
    LET upd == CopyOf(h, cur)
        h1 == [h EXCEPT ![upd] = h[cur]]
        st == UpdateLoop([prof |-> h1[upd], prompted |-> <<>>, exc |-> "none"], 1, ins)
    IN [heap     |-> [h1 EXCEPT ![upd] = st.prof],
        ret      |-> IF st.exc = "none" THEN upd ELSE 0,
        exc      |-> st.exc,
        prompted |-> st.prompted]

(***************************************************************************)
(* agent.py                                                                *)
(***************************************************************************)
\* The top-level statements of agent.py that hold code, in order.  returns:
\* the statement's own suite (not a function nested in it) holds a `return`.
\* The class statement at column 0 of line 265 ends create_agent_pipeline at
\* line 262; lines 266-396, indented, are the body of the class.
agent_module ==
    << [kind |-> "def",   name |-> "profile_to_string",              returns |-> TRUE],
       [kind |-> "def",   name |-> "get_student_profile",            returns |-> TRUE],
       [kind |-> "class", name |-> "UniversityInfo",                 returns |-> FALSE],
       [kind |-> "class", name |-> "CurrentPerformer",               returns |-> FALSE],
       [kind |-> "class", name |-> "ChampionshipResult",             returns |-> FALSE],
       [kind |-> "class", name |-> "SportsInfo",                     returns |-> FALSE],
       [kind |-> "def",   name |-> "create_agent_pipeline",          returns |-> FALSE],
       [kind |-> "class", name |-> "ComprehensiveCollegeReportData", returns |-> TRUE],
       [kind |-> "def",   name |-> "main",                           returns |-> FALSE] >>

\* Python rejects a module with a `return` outside a function.
ReturnOutsideFunction(module) ==
    \E i \in DOMAIN module : module[i].kind # "def" /\ module[i].returns

\* The stages handed to SequentialAgent, in order.
sub_agents == <<"search_agent", "university_info_extractor", "sports_info_extractor",
                "missing_info_resolver", "report_writer_agent">>

\* What a call of create_agent_pipeline gives back: its suite ends at line 262
\* without a `return`, so the call evaluates to None; with one it would be the
\* SequentialAgent over sub_agents.
create_agent_pipeline ==
    LET f == CHOOSE i \in DOMAIN agent_module : agent_module[i].name = "create_agent_pipeline"
    IN IF agent_module[f].returns
       THEN [none |-> FALSE, stages |-> sub_agents]
       ELSE [none |-> TRUE, stages |-> <<>>]

\* The keys `initial_input` of main() holds.
initial_input == {"target_college", "student_profile"}

output_key_shared(stage) ==
    CASE stage = "search_agent"              -> "university_search_results"
      [] stage = "university_info_extractor" -> "university_info"
      [] stage = "sports_info_extractor"     -> "sports_info_extracted"
      [] stage = "missing_info_resolver"     -> "university_info"
      [] stage = "report_writer_agent"       -> "final_report"

\* The output_key= argument of each LlmAgent.
output_key(stage) ==
    CASE stage = "search_agent"              -> "university_search_results"
      [] stage = "university_info_extractor" -> "university_info"
      [] stage = "sports_info_extractor"     -> "sports_info_extracted"
      [] stage = "missing_info_resolver"     -> "completed_info"
      [] stage = "report_writer_agent"       -> "final_report"

\* The state keys a stage's instruction names as what it is given: the three
\* quoted names of lines 274-276, and the name of line 363.
instruction_inputs(stage) ==
    CASE stage = "missing_info_resolver" -> {"university_info", "sports_info",
                                             "target_college_name"}
      [] stage = "report_writer_agent"   -> {"target_college_name"}
      [] OTHER                           -> {}

\* The names an instruction holds in braces once its f-string is evaluated
\* (`{{{{ target_college_name }}}}` of line 363 becomes `{{ target_college_name }}`),
\* which the agent framework fills in from the state when the stage starts.
instruction_placeholders(stage) ==
    IF stage = "report_writer_agent" THEN {"target_college_name"} ELSE {}

\* Every key a run's state can hold or an instruction names.
StateKeys ==
    initial_input
    \cup {output_key(sub_agents[i]) : i \in DOMAIN sub_agents}
    \cup UNION {instruction_inputs(sub_agents[i]) : i \in DOMAIN sub_agents}

\* The structured records: their fields, and the fields declared with a default.
Schemas == {"CurrentPerformer", "ChampionshipResult", "SportsInfo"}

FieldsOf(schema) ==
    CASE schema = "CurrentPerformer" ->
           {"name", "mark", "ranking", "class_year", "event_category", "sport"}
      [] schema = "ChampionshipResult" ->
           {"event_name", "gender", "finalists"}
      [] schema = "SportsInfo" ->
           {"ncaa_division", "conference", "facilities", "coaching_staff", "team_roster",
            "team_page_url", "current_performers", "championship_results",
            "recruiting_standards", "walk_on_standards", "conference_qualifying_marks",
            "team_depth_analysis"}

\* Fields annotated List[...].
ListFields(schema) ==
    CASE schema = "ChampionshipResult" -> {"finalists"}
      [] schema = "SportsInfo"         -> {"current_performers", "championship_results"}
      [] OTHER                         -> {}

\* Field(..., default="N/A") appears on two fields only; every other field is
\* Field(description=...) and so is required.
DefaultsOf(schema) ==
    IF schema = "CurrentPerformer" THEN {"ranking", "class_year"} ELSE {}

AllFields == UNION {FieldsOf(sc) : sc \in Schemas}

NotBuilt == [schema |-> "none", omitted |-> {}, exc |-> "none",
             value |-> [f \in AllFields |-> "unset"]]

\* schema(**kwargs) with every field but `omitted` supplied: pydantic raises
\* ValidationError when a required field is missing, and fills a missing field
\* that has a default with that default.
BuildModel(schema, omitted) ==
    IF omitted \subseteq DefaultsOf(schema)
    THEN [schema |-> schema, omitted |-> omitted, exc |-> "none",
          value |-> [f \in AllFields |->
                        IF f \notin FieldsOf(schema) THEN "unset"
                        ELSE IF f \in omitted THEN "N/A"
                        ELSE IF f \in ListFields(schema) THEN "[...]"
                        ELSE "given"]]
    ELSE [NotBuilt EXCEPT !.schema = schema, !.omitted = omitted,
                          !.exc = "ValidationError"]

(***************************************************************************)
(* The state machine                                                       *)
(***************************************************************************)
\* A profile whose events are a tuple, one whose events are a set, one read
\* from a hand-written document.
TupleProfile == [get_default_profile EXCEPT !.events = PyTuple("55m,100m")]
SetProfile == [get_default_profile EXCEPT !.events = PySet("55m,100m")]
SparseProfile == [EmptyDict EXCEPT !.full_name = PyStr("Bo"), !.sat_score = PyNone,
                                   !.gpa_scale = PyFloat(400),
                                   !.nickname = PyStr("B")]

EditedProfile == [get_default_profile EXCEPT !.full_name = PyStr("Bo"),
                                             !.unweighted_gpa = PyFloat(320),
                                             !.sat_score = PyInt(1400)]

\* Dictionaries a caller builds itself and passes to save_profile.
SaveLiterals == {EditedProfile, TupleProfile, SetProfile}

\* The profile documents a run may start from.
InitFiles ==
    {[exists |-> FALSE, readable |-> TRUE, body |-> OtherBody("invalid")]}
    \cup {[exists |-> TRUE, readable |-> TRUE, body |-> b] :
            b \in {DumpProfile(get_default_profile), DumpProfile(EmptyDict),
                   DumpProfile(SparseProfile), OtherBody("nonobject"),
                   OtherBody("invalid"), OtherBody("undecodable"), OtherBody("deep")}}
    \cup {[exists |-> TRUE, readable |-> FALSE, body |-> DumpProfile(get_default_profile)]}

\* The lines the user may type at the prompt for each field.
InputsFor(key) ==
    CASE key = "full_name"      -> {"", "Bo"}
      [] key = "unweighted_gpa" -> {"", "4.5", "abc"}
      [] key = "sat_score"      -> {"", "1400", "4.5"}
      [] OTHER                  -> {""}

InputSeqs ==
    {<<a, b, c, d, e, f, g>> :
        a \in InputsFor("full_name"), b \in InputsFor("grade_level"),
        c \in InputsFor("primary_sport"), d \in InputsFor("gender"),
        e \in InputsFor("unweighted_gpa"), f \in InputsFor("sat_score"),
        g \in InputsFor("high_school")}

NothingSaved == [ok |-> FALSE, p |-> EmptyDict]

NoCall == [op |-> "init", arg |-> EmptyDict, saveRaised |-> "notcalled",
           saved |-> NothingSaved]

Init ==
    /\ file \in InitFiles
    /\ heap = [s \in Slots |-> EmptyDict]
    /\ held = 0
    /\ op = "init"
    /\ argRef = 0
    /\ argSnap = EmptyDict
    /\ ret = 0
    /\ exc = "none"
    /\ docBefore = file
    /\ inputs = <<>>
    /\ prompted = <<>>
    /\ saveRaised = "notcalled"
    /\ prev = NoCall
    /\ nCalls = 0
    /\ lastSaved = NothingSaved
    /\ agentPc = "start"
    /\ stagesRun = <<>>
    /\ pstate = [k \in StateKeys |-> IF k \in initial_input THEN "given" ELSE "unset"]
    /\ unmet = {}
    /\ runExc = "none"
    /\ built = NotBuilt

\* what every call records
Called(name) ==
    /\ nCalls < MaxCalls
    /\ nCalls' = nCalls + 1
    /\ op' = name
    /\ docBefore' = file
    /\ prev' = [op |-> op, arg |-> argSnap, saveRaised |-> saveRaised,
                saved |-> lastSaved]
    /\ UNCHANGED <<agentPc, stagesRun, pstate, unmet, runExc, built>>

FreshSlot == IF held = 0 THEN 1 ELSE Other(held)

\* profile = load_profile()
LoadCall(fault) ==
    LET r == load_profile(file, fault)
    IN /\ Called("load")
       /\ file' = r.file
       /\ exc' = r.exc
       /\ saveRaised' = r.saveRaised
       /\ argRef' = 0
       /\ argSnap' = EmptyDict
       /\ inputs' = <<>>
       /\ prompted' = <<>>
       /\ lastSaved' = NothingSaved
       /\ IF r.exc = "none"
          THEN /\ heap' = [s \in Slots |-> IF s = FreshSlot THEN r.result ELSE EmptyDict]
               /\ held' = FreshSlot
               /\ ret' = FreshSlot
          ELSE /\ UNCHANGED <<heap, held>>
               /\ ret' = 0

\* save_profile(profile), profile being the held dictionary or a new one
SaveCall(p, fault) ==
    LET slot == IF held # 0 /\ heap[held] = p THEN held ELSE FreshSlot
        r == save_profile(file, p, fault)
    IN /\ Called("save")
       /\ file' = r.file
       /\ exc' = r.exc
       /\ saveRaised' = r.raised
       /\ heap' = IF slot = held THEN heap
                  ELSE [s \in Slots |-> IF s = slot THEN p ELSE EmptyDict]
       /\ held' = slot
       /\ argRef' = slot
       /\ argSnap' = p
       /\ ret' = 0
       /\ inputs' = <<>>
       /\ prompted' = <<>>
       /\ lastSaved' = IF r.raised = "none" THEN [ok |-> TRUE, p |-> p] ELSE lastSaved

\* profile = update_profile_interactively(profile)
UpdateCall(ins) ==
    LET r == update_profile_interactively(heap, held, ins)
    IN /\ held # 0
       /\ Called("update")
       /\ heap' = r.heap
       /\ exc' = r.exc
       /\ ret' = r.ret
       /\ held' = IF r.exc = "none" THEN r.ret ELSE held
       /\ argRef' = held
       /\ argSnap' = heap[held]
       /\ inputs' = ins
       /\ prompted' = r.prompted
       /\ saveRaised' = "notcalled"
       /\ UNCHANGED <<file, lastSaved>>

\* python agent.py, or import of the module
RunAgentModule ==
    /\ agentPc = "start"
    /\ agentPc' = IF ReturnOutsideFunction(agent_module) THEN "SyntaxError" ELSE "loaded"
    /\ UNCHANGED <<file, heap, held, op, argRef, argSnap, ret, exc, docBefore, inputs,
                   prompted, saveRaised, prev, nCalls, lastSaved, stagesRun,
                   pstate, unmet, runExc, built>>

Next ==
    \/ \E fault \in StorageFaults : LoadCall(fault)
    \/ \E p \in SaveLiterals \cup {heap[s] : s \in Slots \cap {held}},
          fault \in StorageFaults : SaveCall(p, fault)
    \/ \E ins \in InputSeqs : UpdateCall(ins)
    \/ RunAgentModule

Spec == Init /\ [][Next]_vars

(***************************************************************************)
(* The stages as declared, run in order over initial_input                 *)
(***************************************************************************)
profileVars == <<file, heap, held, op, argRef, argSnap, ret, exc, docBefore, inputs,
                 prompted, saveRaised, prev, nCalls, lastSaved>>

\* What a stage may produce.
StageOutputs == {"N/A", "found"}

\* The field sets a record is built without.
Omissions(schema) ==
    {{}} \cup {{f} : f \in FieldsOf(schema)} \cup {ListFields(schema), DefaultsOf(schema)}

PipelineInit ==
    /\ Init
    /\ ~file.exists

\* The next stage of sub_agents runs: its instruction's placeholders are
\* filled from the state (a name the state lacks ends the run with KeyError in
\* frameworks that insist on it, and is left as text in others), then its
\* result is stored under its output_key.
RunStage ==
    /\ runExc = "none"
    /\ Len(stagesRun) < Len(sub_agents)
    /\ LET stage == sub_agents[Len(stagesRun) + 1]
           missing == {k \in instruction_inputs(stage) : pstate[k] = "unset"}
           unfilled == {k \in instruction_placeholders(stage) : pstate[k] = "unset"}
       IN /\ unmet' = unmet \cup {<<stage, k>> : k \in missing}
          /\ \/ /\ unfilled # {}
                /\ runExc' = "KeyError"
                /\ UNCHANGED <<pstate, stagesRun>>
             \/ /\ \E v \in StageOutputs :
                       pstate' = [pstate EXCEPT ![output_key(stage)] = v]
                /\ stagesRun' = Append(stagesRun, stage)
                /\ UNCHANGED runExc
    /\ UNCHANGED <<profileVars, agentPc, built>>

\* A structured record is constructed from a stage's output.
BuildRecord(schema, omitted) ==
    /\ built' = BuildModel(schema, omitted)
    /\ UNCHANGED <<profileVars, agentPc, stagesRun, pstate, unmet, runExc>>

PipelineNext ==
    \/ RunStage
    \/ \E schema \in Schemas : \E omitted \in Omissions(schema) : BuildRecord(schema, omitted)

PipelineSpec == PipelineInit /\ [][PipelineNext]_vars

(***************************************************************************)
(* The claims                                                              *)
(***************************************************************************)
\* A document load_profile does not return as it stands.
DocDegrades(f) == ~f.exists \/ ~f.readable \/ f.body.kind # "object"

\* A document that is absent, not parseable or not a mapping.
DocAbsentOrBroken(f) ==
    ~f.exists \/ (f.readable /\ f.body.kind \in {"invalid", "undecodable", "nonobject"})

\* A StudentProfile: exactly the eleven fields, each of its type.
WellFormed(p) ==
    /\ \A k \in {"full_name", "grade_level", "primary_sport", "gender", "high_school"} :
          p[k].t = "str"
    /\ \A k \in {"unweighted_gpa", "gpa_scale"} : p[k].t = "float"
    /\ \A k \in {"sat_score", "act_score"} : p[k].t = "int" \/ p[k] = PyStr("N/A")
    /\ p["events"].t = "list"
    /\ p["personal_records"].t = "dict"
    /\ p["nickname"] = Absent

FieldIndex(key) == CHOOSE i \in DOMAIN fields_to_update : fields_to_update[i].key = key
AllKeysInOrder == [i \in DOMAIN fields_to_update |-> fields_to_update[i].key]
AllEmpty(ins) == Len(ins) = Len(fields_to_update) /\ \A i \in DOMAIN ins : ins[i] = ""
TimesPrompted(key) == Cardinality({i \in DOMAIN prompted : prompted[i] = key})

\* C1: load_profile() returns without raising whatever the state of the profile
\* document, and returns the default profile when the document is absent,
\* unreadable, not valid JSON or not a mapping.
C1_LoadNeverRaises ==
    op = "load" =>
        /\ exc = "none"
        /\ ret # 0
        /\ DocDegrades(docBefore) => heap[ret] = get_default_profile

\* A load of a readable document holding valid JSON that is not a mapping
\* returned the default profile.
C1_Witness ==
    /\ op = "load"
    /\ docBefore.exists /\ docBefore.readable /\ docBefore.body.kind = "nonobject"
    /\ exc = "none"
    /\ ret # 0
    /\ heap[ret] = get_default_profile

\* C2 as stated: for every well-formed P and every prior state of the
\* document, load_profile() right after save_profile(P) returns P.
C2_Orig ==
    (op = "load" /\ prev.op = "save" /\ WellFormed(prev.arg)) =>
        (exc = "none" /\ ret # 0 /\ heap[ret] = prev.arg)

\* C2 amended: for every well-formed P, when save_profile(P) wrote the
\* document completely and the document is readable, the load_profile() that
\* follows returns a record equal to P.
C2_RoundTrip ==
    (/\ op = "load" /\ prev.op = "save" /\ WellFormed(prev.arg)
     /\ prev.saveRaised = "none" /\ docBefore.readable) =>
        (exc = "none" /\ ret # 0 /\ heap[ret] = prev.arg)

\* A well-formed profile other than the default was saved and then loaded back.
C2_Witness ==
    /\ op = "load" /\ prev.op = "save"
    /\ prev.arg = EditedProfile
    /\ prev.saveRaised = "none" /\ docBefore.readable
    /\ ret # 0
    /\ heap[ret] = EditedProfile

\* C3 as stated: whenever load_profile() falls back to the default because the
\* document is absent, not parseable or not a mapping, the stored document
\* equals the default profile when it returns.
C3_Orig ==
    (op = "load" /\ DocAbsentOrBroken(docBefore)) =>
        (file.exists /\ file.body = DumpProfile(get_default_profile))

\* C3 amended: in those cases load_profile() returns the default and calls
\* save_profile(default); the stored document equals the default profile when
\* that write completes.
C3_PersistsDefault ==
    (op = "load" /\ DocAbsentOrBroken(docBefore)) =>
        /\ ret # 0
        /\ heap[ret] = get_default_profile
        /\ saveRaised # "notcalled"
        /\ saveRaised = "none" =>
              (file.exists /\ file.body = DumpProfile(get_default_profile))

\* A load found no document and wrote the default one.
C3_Witness ==
    /\ op = "load"
    /\ ~docBefore.exists
    /\ saveRaised = "none"
    /\ file.exists /\ file.readable
    /\ file.body = DumpProfile(get_default_profile)

\* C4: save_profile(profile) returns normally for every profile and every
\* storage failure, and leaves the caller's dictionary as it was.
C4_SaveNeverRaises ==
    op = "save" =>
        /\ exc = "none"
        /\ held = argRef
        /\ heap[argRef] = argSnap

\* A save of a dictionary that json.dump rejects returned normally.
C4_Witness ==
    /\ op = "save"
    /\ saveRaised = "TypeError"
    /\ exc = "none"
    /\ heap[argRef] = SetProfile

\* C5 as stated: every profile load_profile() or
\* update_profile_interactively() returns holds every scalar field, with a
\* value or "N/A".
C5_Orig ==
    (op \in {"load", "update"} /\ ret # 0) =>
        \A k \in ScalarKeys : heap[ret][k].t \in {"str", "int", "float"}

\* C6: with an empty line at all seven prompts update_profile_interactively()
\* returns a profile with the same keys and the same value for every key.
C6_EmptyInputsIdentity ==
    (op = "update" /\ AllEmpty(inputs)) =>
        (exc = "none" /\ ret # 0 /\ heap[ret] = argSnap)

\* An update with seven empty lines, of a profile that lacks most keys.
C6_Witness ==
    /\ op = "update"
    /\ AllEmpty(inputs)
    /\ argSnap = SparseProfile
    /\ ret # 0
    /\ heap[ret] = SparseProfile

\* C7: a non-empty line that float() or int() rejects leaves the field as it
\* was, and every field is still prompted for.
C7_ParseFailureKeeps ==
    op = "update" =>
        \A i \in DOMAIN fields_to_update :
            (/\ fields_to_update[i].type \in {"float", "int"}
             /\ inputs[i] # ""
             /\ Convert(fields_to_update[i].type, inputs[i]).exc # "none") =>
                /\ exc = "none"
                /\ ret # 0
                /\ heap[ret][fields_to_update[i].key] = argSnap[fields_to_update[i].key]
                /\ prompted = AllKeysInOrder

\* An update where "abc" was typed for the GPA and "4.5" for the SAT score.
C7_Witness ==
    /\ op = "update"
    /\ inputs[FieldIndex("unweighted_gpa")] = "abc"
    /\ inputs[FieldIndex("sat_score")] = "4.5"
    /\ inputs[FieldIndex("full_name")] = "Bo"
    /\ argSnap = get_default_profile
    /\ ret # 0
    /\ heap[ret] = [get_default_profile EXCEPT !.full_name = PyStr("Bo")]
    /\ prompted = AllKeysInOrder

\* C8 as stated: with gpa_scale 4.0 the GPA line "4.5" is rejected, the
\* original unweighted_gpa is kept and the GPA is prompted for again.
C8_Orig ==
    (/\ op = "update"
     /\ argSnap["gpa_scale"] = PyFloat(400)
     /\ inputs[FieldIndex("unweighted_gpa")] = "4.5") =>
        /\ ret # 0
        /\ heap[ret]["unweighted_gpa"] = argSnap["unweighted_gpa"]
        /\ TimesPrompted("unweighted_gpa") >= 2

\* C9: update_profile_interactively(profile) leaves its argument as it was
\* and returns another dictionary.
C9_InputNotMutated ==
    op = "update" =>
        /\ argRef # 0
        /\ heap[argRef] = argSnap
        /\ ret # 0
        /\ ret # argRef

\* An update that changed a field: the result differs from the argument, which
\* is as it was.
C9_Witness ==
    /\ op = "update"
    /\ ret # 0 /\ ret # argRef
    /\ heap[ret] # argSnap
    /\ heap[argRef] = argSnap
    /\ heap[ret]["events"] = argSnap["events"]

C11_AppendOnly ==
    [][/\ \A k \in StateKeys : pstate[k] # "unset" => pstate'[k] = pstate[k]
       /\ \A i, j \in DOMAIN sub_agents :
             i # j => output_key(sub_agents[i]) # output_key(sub_agents[j])]_vars

\* Four stages have run and each one's key holds what it wrote; the first
\* and the fourth wrote different values.
C11_Witness ==
    /\ Len(stagesRun) >= 4
    /\ pstate["university_search_results"] = "N/A"
    /\ pstate["university_info"] = "found"
    /\ pstate["sports_info_extracted"] = "found"
    /\ pstate["completed_info"] = "found"

\* C12 as stated: every state key a stage's instruction names as its input is
\* in the initial input or was written by an earlier stage.
C12_Orig == unmet = {}

\* C13 as stated: once agent.py is loaded, create_agent_pipeline returns a
\* pipeline whose stages are the five, in order; it never returns without one.
C13_Orig ==
    agentPc # "start" =>
        /\ agentPc = "loaded"
        /\ ~create_agent_pipeline.none
        /\ create_agent_pipeline.stages = sub_agents

\* C14 as stated: a record built without a list field is accepted and holds
\* an empty sequence for it.
C14_Orig ==
    (built.schema # "none" /\ built.omitted # {}
       /\ built.omitted \subseteq ListFields(built.schema)) =>
        /\ built.exc = "none"
        /\ \A f \in built.omitted : built.value[f] = "[]"

\* The keys update_profile_interactively may change.
SevenKeys == {"full_name", "grade_level", "primary_sport", "gender", "unweighted_gpa",
              "sat_score", "high_school"}

\* C15: update_profile_interactively() changes at most the seven editable
\* keys: every other key of the input is in the result with the same value, and
\* no key outside the seven is added.
C15_OnlySevenKeysChange ==
    op = "update" =>
        /\ ret # 0
        /\ \A k \in Keys \ SevenKeys : heap[ret][k] = argSnap[k]

\* An update of a profile with an unknown key and without most others, where
\* a name, a GPA and an SAT score were typed: the three are set, the rest is as
\* it was.
C15_Witness ==
    /\ op = "update"
    /\ argSnap = SparseProfile
    /\ inputs[FieldIndex("full_name")] = "Bo"
    /\ inputs[FieldIndex("unweighted_gpa")] = "4.5"
    /\ inputs[FieldIndex("sat_score")] = "1400"
    /\ ret # 0
    /\ heap[ret] = [SparseProfile EXCEPT !.unweighted_gpa = PyFloat(450),
                                         !.sat_score = PyInt(1400)]

\* C16 as stated: after save_profile(P0) succeeds and save_profile(P1) fails,
\* load_profile() returns P0 (P0 well-formed, the document readable).
C16_Orig ==
    (/\ op = "load"
     /\ prev.op = "save" /\ prev.saveRaised # "none"
     /\ prev.saved.ok /\ WellFormed(prev.saved.p)
     /\ docBefore.readable) =>
        (ret # 0 /\ heap[ret] = prev.saved.p)

====
